---- MODULE Spec2Model ----
(***************************************************************************)
(* Model of the demand forecasting subsystem:                              *)
(*   Sales/database/forecast_utils.py      (fetch, assemble, fit,          *)
(*                                          generate, evaluate)            *)
(*   Sales/tools/DemandForecastEngine/DemandForecastEngine.py  (engine)    *)
(*                                                                         *)
(* Dates are day numbers.  A float is a record [k, v]: k = "fin" with v    *)
(* the value in units of 1/Scale, k = "nan", or k = "inf" with v the sign. *)
(* Two specifications share the variables:                                 *)
(*   FnSpec  applies the functions of forecast_utils.py to bounded inputs; *)
(*   Spec    runs the operations of a DemandForecastEngine over a store.   *)
(***************************************************************************)
EXTENDS Integers, Sequences, FiniteSets, TLC

VARIABLES
    rng,        \* state of the process-wide np.random generator
    pc,         \* FnSpec: what the caller of forecast_utils holds so far
    raw,        \* FnSpec: the caller's raw observations (a DataFrame)
    ts,         \* FnSpec: the caller's daily series (a DataFrame)
    model,      \* FnSpec: the caller's fitted model (a dict), or NoModel
    fncall,     \* FnSpec: the last call of a forecast_utils function
    prevgen,    \* FnSpec: the generate_forecast call before the last one
    store,      \* Spec: rows of dbo_F_Sales_Transaction
    conn,       \* Spec: engine.conn, 0 for None, else a connection id
    nconn,      \* Spec: number of connections sqlite3.connect has returned
    openConns,  \* Spec: ids of the connections that are open
    last,       \* Spec: the last engine operation and its outcome
    inWith,     \* Spec: the caller is inside `with engine:`
    thr,        \* ConcSpec, ConnSpec: where each thread is in its call
    singleton,  \* DatabaseConnector._instance, 0 for None, else an object id
    created     \* number of DatabaseConnector objects constructed

fnvars == <<pc, raw, ts, model, fncall, prevgen>>
engvars == <<store, conn, nconn, openConns, last, inWith, thr>>
dbvars == <<singleton, created>>
vars == <<rng, pc, raw, ts, model, fncall, prevgen, store, conn, nconn, openConns, last,
          inWith, thr, singleton, created>>

---------------------------------------------------------------------------
(* Bounds of the model *)

Scale == 100        \* fixed-point resolution of a float
MaxDay == 3         \* raw observations are dated 1..MaxDay
MaxQty == 2         \* a raw quantity is in -1..MaxQty
MaxRows == 2        \* rows handed to prepare_time_series_data
MaxLen == 3         \* length of the exhaustively enumerated series
MaxH == 2           \* forecast_periods handed to generate_forecast

(* Program constants *)

ZScoreNum == 196    \* z_score = 1.96
ZScoreDen == 100
LookbackDays == 90  \* timedelta(days=90)

---------------------------------------------------------------------------
(* Floats *)

Fin(v) == [k |-> "fin", v |-> v]
NaN == [k |-> "nan", v |-> 0]
Inf(s) == [k |-> "inf", v |-> s]
FromInt(n) == Fin(n * Scale)

IsFin(x) == x.k = "fin"
IsNaN(x) == x.k = "nan"

Abs(n) == IF n < 0 THEN 0 - n ELSE n
Sign(n) == IF n < 0 THEN 0 - 1 ELSE IF n > 0 THEN 1 ELSE 0
Min(a, b) == IF a <= b THEN a ELSE b

\* a * m / d rounded toward zero, d # 0, without forming the product a * m
MulDiv(a, m, d) ==
    LET q == Abs(a) \div Abs(d)
        r == Abs(a) % Abs(d)
    IN  Sign(a) * Sign(m) * Sign(d) * (q * Abs(m) + (r * Abs(m)) \div Abs(d))

FNeg(x) == IF IsNaN(x) THEN NaN ELSE [k |-> x.k, v |-> 0 - x.v]

FAdd(a, b) ==
    IF IsNaN(a) \/ IsNaN(b) THEN NaN
    ELSE IF a.k = "inf" /\ b.k = "inf" THEN (IF a.v = b.v THEN a ELSE NaN)
    ELSE IF a.k = "inf" THEN a
    ELSE IF b.k = "inf" THEN b
    ELSE Fin(a.v + b.v)

FSub(a, b) == FAdd(a, FNeg(b))

\* x * (n / d) for a decimal literal n/d of the source (0.5, 1.96), or an int
FTimes(x, n, d) ==
    IF IsNaN(x) THEN NaN
    ELSE IF x.k = "inf" THEN (IF n = 0 THEN NaN ELSE Inf(x.v * Sign(n) * Sign(d)))
    ELSE Fin(MulDiv(x.v, n, d))

FMul(a, b) ==
    IF IsNaN(a) \/ IsNaN(b) THEN NaN
    ELSE IF a.k = "inf" \/ b.k = "inf"
         THEN (IF a.v = 0 \/ b.v = 0 THEN NaN ELSE Inf(Sign(a.v) * Sign(b.v)))
    ELSE Fin(MulDiv(a.v, b.v, Scale))

\* numpy float64 division: x/0 is inf or nan, never an exception
FDiv(a, b) ==
    IF IsNaN(a) \/ IsNaN(b) THEN NaN
    ELSE IF a.k = "inf" THEN (IF b.k = "inf" THEN NaN
                              ELSE Inf(a.v * (IF b.v < 0 THEN 0 - 1 ELSE 1)))
    ELSE IF b.k = "inf" THEN Fin(0)
    ELSE IF b.v = 0 THEN (IF a.v = 0 THEN NaN ELSE Inf(Sign(a.v)))
    ELSE Fin(MulDiv(a.v, Scale, b.v))

\* a > b; every comparison with nan is False
FGt(a, b) ==
    IF IsNaN(a) \/ IsNaN(b) THEN FALSE
    ELSE IF a.k = "inf" THEN (a.v = 1 /\ ~(b.k = "inf" /\ b.v = 1))
    ELSE IF b.k = "inf" THEN b.v = 0 - 1
    ELSE a.v > b.v

FGe(a, b) == FGt(a, b) \/ (~IsNaN(a) /\ a = b)

PyMax0Unclamped(x) == x

\* Python's max(0, x): x replaces 0 only when x > 0 is True
PyMax0(x) == IF FGt(x, Fin(0)) THEN x ELSE Fin(0)

RECURSIVE SqrtSearch(_, _, _)
SqrtSearch(lo, hi, n) ==
    IF lo >= hi THEN lo
    ELSE LET mid == (lo + hi + 1) \div 2
         IN  IF mid * mid <= n THEN SqrtSearch(mid, hi, n)
             ELSE SqrtSearch(lo, mid - 1, n)

\* largest r with r*r <= n, n >= 0
ISqrt(n) == SqrtSearch(0, Min(n, 46340), n)     \* 46340^2 < 2^31

FSqrt(x) ==
    IF IsNaN(x) THEN NaN
    ELSE IF x.k = "inf" THEN (IF x.v = 1 THEN x ELSE NaN)
    ELSE IF x.v < 0 THEN NaN
    ELSE Fin(ISqrt(x.v * Scale))

---------------------------------------------------------------------------
(* Sequences *)

\* sums by halving, so that a long series needs no deep recursion
RECURSIVE SumRange(_, _, _)
SumRange(s, lo, hi) ==
    IF lo > hi THEN 0
    ELSE IF lo = hi THEN s[lo]
    ELSE LET mid == (lo + hi) \div 2
         IN  SumRange(s, lo, mid) + SumRange(s, mid + 1, hi)
SumSeq(s) == SumRange(s, 1, Len(s))

RECURSIVE FSumRange(_, _, _)
FSumRange(s, lo, hi) ==
    IF lo > hi THEN Fin(0)
    ELSE IF lo = hi THEN s[lo]
    ELSE LET mid == (lo + hi) \div 2
         IN  FAdd(FSumRange(s, lo, mid), FSumRange(s, mid + 1, hi))
FSumSeq(s) == FSumRange(s, 1, Len(s))

\* the same sequence, with every element evaluated once
Strict(s) == s \o <<>>

LastN(s, n) == SubSeq(s, Len(s) - n + 1, Len(s))

SeqsUpTo(S, n) == UNION {[1..m -> S] : m \in 0..n}

SetMin(S) == CHOOSE x \in S : \A y \in S : x <= y
SetMax(S) == CHOOSE x \in S : \A y \in S : x >= y

---------------------------------------------------------------------------
(* Results of a call: a returned value or a raised exception *)

Ret(v) == [ok |-> TRUE, val |-> v]
Raise(e) == [ok |-> FALSE, exc |-> e]

---------------------------------------------------------------------------
(* forecast_utils.py: prepare_time_series_data *)

\* a raw row is [date, key, qty, amt]; a DataFrame is a sequence of rows
RECURSIVE SumWhere(_, _, _)
SumWhere(data, d, col) ==
    IF data = <<>> THEN 0
    ELSE (IF data[1].date = d THEN data[1][col] ELSE 0) + SumWhere(Tail(data), d, col)

GroupByDateLast(data) ==
    [d \in {data[i].date : i \in DOMAIN data} |->
        LET i == SetMax({j \in DOMAIN data : data[j].date = d})
        IN  [date |-> d, qty |-> data[i].qty, rev |-> data[i].amt]]

\* data.groupby('Txn Date').agg(sum): one row per date that occurs
GroupByDate(data) ==
    [d \in {data[i].date : i \in DOMAIN data} |->
        [date |-> d, qty |-> SumWhere(data, d, "qty"), rev |-> SumWhere(data, d, "amt")]]

\* pd.date_range(start, end, freq='D')
DateRange(start, end) == [i \in 1..(end - start + 1) |-> start + (i - 1)]

\* pd.date_range(start, periods=n, freq='D')
DateRangePeriods(start, n) == [i \in 1..n |-> start + (i - 1)]

ReindexPresentOnly(daily, index) ==
    LET present == SelectSeq(index, LAMBDA d : d \in DOMAIN daily)
    IN  [i \in DOMAIN present |-> daily[present[i]]]

\* daily.set_index('Txn Date').reindex(index, fill_value=0).reset_index()
Reindex(daily, index) ==
    [i \in DOMAIN index |->
        IF index[i] \in DOMAIN daily THEN daily[index[i]]
        ELSE [date |-> index[i], qty |-> 0, rev |-> 0]]

prepare_time_series_data(data) ==
    IF data = <<>> THEN Raise("ValueError")     \* min() of no dates is NaT
    ELSE LET daily == GroupByDate(data)
             date_range == DateRange(SetMin(DOMAIN daily), SetMax(DOMAIN daily))
         IN  Ret(Reindex(daily, date_range))

---------------------------------------------------------------------------
(* forecast_utils.py: detect_time_series_properties is diagnostic only and *)
(* feeds nothing; it is not modelled beyond being a stage of the engine.   *)

(* forecast_utils.py: train_forecast_model *)

Quantity(series) == [i \in DOMAIN series |-> FromInt(series[i].qty)]
Amount(series) == [i \in DOMAIN series |-> FromInt(series[i].rev)]
Column(series, column) == IF column = "Quantity" THEN Quantity(series) ELSE Amount(series)

NominalWindowStrict(forecast_periods) ==
    IF forecast_periods < 7 THEN 7
    ELSE IF forecast_periods < 30 THEN 30
    ELSE IF forecast_periods < 90 THEN 90
    ELSE 365

NominalWindow(forecast_periods) ==
    IF forecast_periods <= 7 THEN 7
    ELSE IF forecast_periods <= 30 THEN 30
    ELSE IF forecast_periods <= 90 THEN 90
    ELSE 365

FMean(xs) == FDiv(FSumSeq(xs), FromInt(Len(xs)))

\* sample variance (ddof = 1): squared deviations from the mean over n - 1;
\* 0/0 = nan for a single value
SampleVar(xs) ==
    LET mean == FMean(xs)
        ssqdm == FSumSeq([i \in DOMAIN xs |->
                             FMul(FSub(xs[i], mean), FSub(xs[i], mean))])
    IN  FDiv(ssqdm, FromInt(Len(xs) - 1))

RollingSumLast(xs, window) == FSumSeq(LastN(xs, window))

\* series.rolling(window).mean().iloc[-1] and .std().iloc[-1]
RollingMeanLast(xs, window) == FMean(LastN(xs, window))
RollingStdLast(xs, window) == FSqrt(SampleVar(LastN(xs, window)))

train_forecast_model(time_series, model_type, forecast_periods) ==
    IF model_type # "moving_average" THEN Raise("ValueError")
    ELSE LET window_size == Min(NominalWindow(forecast_periods), Len(time_series))
         IN  IF Len(time_series) = 0 THEN Raise("IndexError")   \* .iloc[-1] of nothing
             ELSE Ret([model_type |-> "moving_average",
                       window_size |-> window_size,
                       moving_avg |-> RollingMeanLast(Quantity(time_series), window_size),
                       std_dev |-> RollingStdLast(Quantity(time_series), window_size)])

---------------------------------------------------------------------------
(* np.random: one process-wide generator; every draw advances its state *)

GaussTable == <<0 - 4, 1, 0 - 1, 3>>     \* standard normal draws, in halves
RngStates == 0..(Len(GaussTable) - 1)
NextRng(s) == (s + 1) % Len(GaussTable)

\* the generator states of n successive draws that start in state s
RECURSIVE RngDraws(_, _)
RngDraws(s, n) ==
    IF n <= 0 THEN <<>>
    ELSE IF n = 1 THEN <<s>>
    ELSE LET left == RngDraws(s, n \div 2)
         IN  left \o RngDraws(NextRng(left[Len(left)]), n - (n \div 2))

\* the generator state after n draws that start in state s
RngAfter(s, n) == IF n <= 0 THEN s ELSE NextRng(RngDraws(s, n)[n])

StandardNormal(scale, s) == Fin((GaussTable[s + 1] * Scale) \div 2)

\* np.random.normal(0, scale) drawn in generator state s
Normal0(scale, s) == FTimes(scale, GaussTable[s + 1], 2)

---------------------------------------------------------------------------
(* forecast_utils.py: generate_forecast *)

TrendPerInterval(historical_values) ==
    IF Len(historical_values) > 1
    THEN FDiv(FSub(historical_values[Len(historical_values)], historical_values[1]),
              FromInt(Len(historical_values) - 1))
    ELSE Fin(0)

Trend(historical_values) ==
    IF Len(historical_values) > 1
    THEN FDiv(FSub(historical_values[Len(historical_values)], historical_values[1]),
              FromInt(Len(historical_values)))
    ELSE Fin(0)

\* one pass of the loop body, i = 0 .. forecast_periods-1, in generator state s
ForecastValue(model_result, trend, i, s) ==
    LET trend_component == FTimes(trend, i + 1, 1)
        random_variation == Normal0(FTimes(model_result.std_dev, 5, 10), s)
        forecast_value == FAdd(FAdd(model_result.moving_avg, trend_component),
                               random_variation)
    IN  PyMax0(forecast_value)

ForecastValues(model_result, trend, forecast_periods, s) ==
    LET draws == RngDraws(s, forecast_periods)
    IN  [j \in 1..forecast_periods |-> ForecastValue(model_result, trend, j - 1, draws[j])]

\* pd.date_range(start=last_date + 1 day, periods=forecast_periods, freq='D')
ForecastDatesFromLastDate(original_series, forecast_periods) ==
    DateRangePeriods(SetMax({original_series[i].date : i \in DOMAIN original_series}),
                     forecast_periods)

ForecastDates(original_series, forecast_periods) ==
    LET last_date == SetMax({original_series[i].date : i \in DOMAIN original_series})
    IN  DateRangePeriods(last_date + 1, forecast_periods)

\* lines 234-243: the forecast DataFrame (column-wise) of the forecast values
ForecastFrame(model_result, forecast_dates, values, prediction_intervals) ==
    LET half == FTimes(model_result.std_dev, ZScoreNum, ZScoreDen)
    IN  [dates |-> forecast_dates,
         Quantity |-> values,
         intervals |-> prediction_intervals,
         lower_bound |-> IF prediction_intervals
                         THEN [j \in DOMAIN values |-> FSub(values[j], half)]
                         ELSE <<>>,
         upper_bound |-> IF prediction_intervals
                         THEN [j \in DOMAIN values |-> FAdd(values[j], half)]
                         ELSE <<>>]

\* z of the two-sided interval of a confidence level given in percent
ZScoreNumAt(confidence_level) == IF confidence_level = 95 THEN ZScoreNum ELSE 128

generate_forecast_at_level(model_result, original_series, prediction_intervals, confidence_level, forecast_periods, s) ==
    IF model_result.model_type # "moving_average" THEN Raise("ValueError")
    ELSE IF original_series = <<>> THEN Raise("ValueError")
    ELSE Ret([df |-> ForecastFrame(
                        [model_result EXCEPT
                            !.std_dev = FTimes(@, ZScoreNumAt(confidence_level), ZScoreNum)],
                        ForecastDates(original_series, forecast_periods),
                        Strict(ForecastValues(model_result, Trend(Quantity(original_series)),
                                              forecast_periods, s)),
                        prediction_intervals),
              rng |-> RngAfter(s, forecast_periods)])

\* returns the forecast DataFrame and the generator state left behind
generate_forecast(model_result, original_series, prediction_intervals, confidence_level, forecast_periods, s) ==
    IF model_result.model_type # "moving_average" THEN Raise("ValueError")
    ELSE IF original_series = <<>> THEN Raise("ValueError")   \* date_range from NaT
    ELSE Ret([df |-> ForecastFrame(
                        model_result,
                        ForecastDates(original_series, forecast_periods),
                        Strict(ForecastValues(model_result, Trend(Quantity(original_series)),
                                              forecast_periods, s)),
                        prediction_intervals),
              rng |-> RngAfter(s, forecast_periods)])

---------------------------------------------------------------------------
(* forecast_utils.py: evaluate_forecast_model *)

FAbs(x) == IF IsFin(x) THEN Fin(Abs(x.v)) ELSE IF IsNaN(x) THEN NaN ELSE Inf(1)

evaluate_last_window(model_result, test_data, column) ==
    IF model_result.model_type # "moving_average" THEN Raise("ValueError")
    ELSE LET actual_values == LastN(Column(test_data, column), model_result.window_size)
             err == [i \in DOMAIN actual_values |->
                        FSub(actual_values[i], model_result.moving_avg)]
             mae == FMean([i \in DOMAIN err |-> FAbs(err[i])])
             mse == FMean([i \in DOMAIN err |-> FMul(err[i], err[i])])
         IN  Ret([mae |-> mae, mse |-> mse, rmse |-> FSqrt(mse)])

evaluate_forecast_model(model_result, test_data, column) ==
    IF model_result.model_type # "moving_average" THEN Raise("ValueError")
    ELSE LET actual_values == Column(test_data, column)
             err == [i \in DOMAIN actual_values |->
                        FSub(actual_values[i], model_result.moving_avg)]
             mae == FMean([i \in DOMAIN err |-> FAbs(err[i])])
             mse == FMean([i \in DOMAIN err |-> FMul(err[i], err[i])])
         IN  Ret([mae |-> mae, mse |-> mse, rmse |-> FSqrt(mse)])

---------------------------------------------------------------------------
(* FnSpec: the functions of forecast_utils.py applied to bounded inputs *)

Qtys == (0 - 1)..MaxQty         \* net quantities; a return is negative
UnitPrice == 5
Amts == {0, UnitPrice}          \* net amounts of a raw row
ModelTypes == {"moving_average", "holt_winters"}
Horizons == {1, 7, 8, 30, 31, 90, 91, 365}
ConfLevels == {80, 95}          \* confidence_level, in percent
Columns == {"Quantity"}
LongLens == {8, 31, 91, 366}    \* one length beyond each nominal window

RawRows == [date : 1..MaxDay, key : {1}, qty : Qtys, amt : Amts]
RawInputs == SeqsUpTo(RawRows, MaxRows)

\* the daily series a, m, ..., m, b of length n dated from day 1
Shape(a, m, b, n) ==
    [i \in 1..n |->
        LET q == IF i = 1 THEN a ELSE IF i = n THEN b ELSE m
        IN  [date |-> i, qty |-> q, rev |-> UnitPrice * q]]

\* quantities rising linearly from 10 to 100 over 10 days
Rising == [i \in 1..10 |-> [date |-> i, qty |-> 10 * i, rev |-> UnitPrice * 10 * i]]

\* every series of length <= MaxLen over Qtys, for each nominal window a
\* series and a constant series one day longer than it, and the rising series
SeriesInputs ==
    {Shape(a, m, b, n) : a \in Qtys, m \in Qtys, b \in Qtys, n \in 0..MaxLen}
    \cup {Shape(MaxQty, 1, 0, n) : n \in LongLens}
    \cup {Shape(MaxQty, MaxQty, MaxQty, n) : n \in LongLens}
    \cup {Rising}

NoModel == [model_type |-> "none"]
NoCall == [op |-> "none"]
NoStore == <<>>
Threads == {1, 2}
NoThreads == [t \in Threads |-> [pc |-> "idle"]]

\* the class attribute _instance = None
NoConnector == singleton = 0 /\ created = 0

\* forecast_utils has been imported: db_connector = get_db_connector()
ConnectorLoaded == singleton = 1 /\ created = 1

EngineIdle ==
    /\ store = NoStore
    /\ conn = 0
    /\ nconn = 0
    /\ openConns = {}
    /\ last = NoCall
    /\ inWith = FALSE
    /\ thr = NoThreads

FnInit ==
    /\ \/ pc = "raw" /\ raw \in RawInputs /\ ts = <<>> /\ rng = 0
       \/ pc = "series" /\ raw = <<>> /\ ts \in SeriesInputs /\ rng \in RngStates
    /\ model = NoModel
    /\ fncall = NoCall
    /\ prevgen = NoCall
    /\ EngineIdle
    /\ ConnectorLoaded

PrepareCall ==
    /\ pc = "raw"
    /\ fncall' = [op |-> "prepare", data |-> raw, res |-> prepare_time_series_data(raw)]
    /\ pc' = "done"
    /\ UNCHANGED <<rng, raw, ts, model, prevgen, engvars, dbvars>>

TrainCall ==
    /\ pc = "series"
    /\ \E model_type \in ModelTypes, forecast_periods \in Horizons :
          \E r \in {train_forecast_model(ts, model_type, forecast_periods)} :
              /\ fncall' = [op |-> "train", series |-> ts, model_type |-> model_type,
                            forecast_periods |-> forecast_periods, res |-> r]
              /\ model' = IF r.ok THEN r.val ELSE NoModel
              /\ pc' = IF r.ok THEN "trained" ELSE "done"
    /\ UNCHANGED <<rng, raw, ts, prevgen, engvars, dbvars>>

\* one call of generate_forecast with the given arguments, in the current rng
Generate(m, series, prediction_intervals, confidence_level, forecast_periods) ==
    \E r \in {generate_forecast(m, series, prediction_intervals, confidence_level,
                                 forecast_periods, rng)} :
        /\ fncall' = [op |-> "generate", model |-> m, series |-> series,
                      prediction_intervals |-> prediction_intervals,
                      confidence_level |-> confidence_level,
                      forecast_periods |-> forecast_periods,
                      drawn_from |-> rng,
                      res |-> IF r.ok THEN Ret(r.val.df) ELSE r]
        /\ rng' = IF r.ok THEN r.val.rng ELSE rng

GenerateCallInPlace ==
    /\ pc = "trained"
    /\ \E prediction_intervals \in BOOLEAN, confidence_level \in ConfLevels,
          forecast_periods \in 0..MaxH :
          Generate(model, ts, prediction_intervals, confidence_level, forecast_periods)
    /\ pc' = "generated"
    /\ model' = [model EXCEPT !.std_dev = Fin(0)]
    /\ UNCHANGED <<raw, ts, prevgen, engvars, dbvars>>

GenerateCall ==
    /\ pc = "trained"
    /\ \E prediction_intervals \in BOOLEAN, confidence_level \in ConfLevels,
          forecast_periods \in 0..MaxH :
          Generate(model, ts, prediction_intervals, confidence_level, forecast_periods)
    /\ pc' = "generated"
    /\ UNCHANGED <<raw, ts, model, prevgen, engvars, dbvars>>

\* the caller runs generate_forecast again with the arguments of the last run
RepeatGenerate ==
    /\ pc = "generated"
    /\ Generate(fncall.model, fncall.series, fncall.prediction_intervals,
                fncall.confidence_level, fncall.forecast_periods)
    /\ prevgen' = fncall
    /\ pc' = "done"
    /\ UNCHANGED <<raw, ts, model, engvars, dbvars>>

\* the caller evaluates the model on the series, before or after a forecast
EvaluateCall ==
    /\ pc \in {"trained", "generated"}
    /\ \E column \in Columns :
          fncall' = [op |-> "evaluate", model |-> model, test_data |-> ts,
                     column |-> column, after_generate |-> (pc = "generated"),
                     res |-> evaluate_forecast_model(model, ts, column)]
    /\ pc' = "done"
    /\ UNCHANGED <<rng, raw, ts, model, prevgen, engvars, dbvars>>

FnNext ==
    \/ PrepareCall
    \/ TrainCall
    \/ GenerateCall
    \/ RepeatGenerate
    \/ EvaluateCall

FnSpec == FnInit /\ [][FnNext]_vars

---------------------------------------------------------------------------
(* The transaction store and forecast_utils.py: fetch_sales_data *)

Items == {1, 2}                 \* Item Key of a transaction
Pids == {0, 1}                  \* product_id argument, 0 for None
StoreQtys == {0, MaxQty}
NoTxn == [date |-> 0]
Txns == [date : 1..MaxDay, qty : StoreQtys, amt : Amts]

\* the table: at most one transaction per item.  Day numbers are relative: the
\* transaction of item 1, if there is one, is on day 1
Stores == {st \in [Items -> Txns \cup {NoTxn}] : st[1] # NoTxn => st[1].date = 1}

\* ten days of 100 units sold for 500
ConstantStore == [k \in 1..10 |-> [date |-> k, qty |-> 100, amt |-> 500]]

\* a free delivery on day 1 and a paid one on day 9: the last 7 days of the
\* series hold the paid one only
TwoPriceStore == <<[date |-> 1, qty |-> MaxQty, amt |-> 0],
                   [date |-> 9, qty |-> MaxQty, amt |-> UnitPrice]>>

\* the latest transaction 91 days after the first and 90 after the second
LongStore == <<[date |-> 1, qty |-> MaxQty, amt |-> UnitPrice],
               [date |-> 2, qty |-> MaxQty, amt |-> UnitPrice],
               [date |-> 92, qty |-> MaxQty, amt |-> UnitPrice]>>

ScenarioStores == {ConstantStore, TwoPriceStore, LongStore}

Present(st) == {k \in DOMAIN st : st[k] # NoTxn}

\* SELECT MAX([Txn Date]): 0 stands for NULL
MaxTxnDate(st) ==
    IF Present(st) = {} THEN 0 ELSE SetMax({st[k].date : k \in Present(st)})

RECURSIVE OrderByDate(_, _)
OrderByDate(st, keys) ==
    IF keys = {} THEN <<>>
    ELSE LET k == CHOOSE x \in keys :
                     \A y \in keys : \/ st[x].date < st[y].date
                                     \/ (st[x].date = st[y].date /\ x <= y)
         IN  <<[date |-> st[k].date, key |-> k, qty |-> st[k].qty, amt |-> st[k].amt]>>
             \o OrderByDate(st, keys \ {k})

\* WHERE [Txn Date] BETWEEN ? AND ? [AND [Item Key] = ?] ... ORDER BY [Txn Date]
SelectRows(st, start_date, end_date, product_id) ==
    OrderByDate(st, {k \in Present(st) :
                        /\ start_date <= st[k].date
                        /\ st[k].date <= end_date
                        /\ (product_id # 0 => k = product_id)})

\* any exception of the query is logged and an empty DataFrame returned
fetch_sales_data(st, start_date, end_date, product_id, query_fails) ==
    IF query_fails THEN <<>>
    ELSE SelectRows(st, start_date, end_date, product_id)

---------------------------------------------------------------------------
(* DemandForecastEngine.py *)

\* where the environment makes a call fail, if anywhere
Faults == {"none", "connect", "latest", "fetch", "visualization"}

\* sqlite3.connect can only fail where the engine has no connection yet
CanFail(fault) == fault = "connect" => conn = 0
Periods == {"week", "month", "quarter", "year", "decade"}

\* the engine's connection state, threaded through one operation
Eng == [conn |-> conn, nconn |-> nconn, openConns |-> openConns]

\* _get_connection: sqlite3.connect, whose exception is logged and re-raised
get_connection(e, fault) ==
    IF fault = "connect" THEN [eng |-> e, res |-> Raise("OperationalError")]
    ELSE [eng |-> [conn |-> e.conn, nconn |-> e.nconn + 1,
                   openConns |-> e.openConns \cup {e.nconn + 1}],
          res |-> Ret(e.nconn + 1)]

\* if not self.conn: self.conn = self._get_connection()
EnsureConn(e, fault) ==
    IF e.conn # 0 THEN [eng |-> e, res |-> Ret(e.conn)]
    ELSE LET c == get_connection(e, fault)
         IN  IF c.res.ok
             THEN [eng |-> [c.eng EXCEPT !.conn = c.res.val], res |-> c.res]
             ELSE c

get_latest_date(st, e, fault) ==
    LET c == EnsureConn(e, fault)
    IN  IF ~c.res.ok THEN c
        ELSE IF fault = "latest" THEN [eng |-> c.eng, res |-> Raise("OperationalError")]
        ELSE IF MaxTxnDate(st) = 0 THEN [eng |-> c.eng, res |-> Raise("ValueError")]
        ELSE [eng |-> c.eng, res |-> Ret(MaxTxnDate(st))]

ResolveStartFromFirst(start_date, end) == IF start_date = 0 THEN 1 ELSE start_date

\* if start_date is None: 90 days before end_date
ResolveStart(start_date, end) ==
    IF start_date = 0 THEN end - LookbackDays ELSE start_date

\* start_date, end_date: 0 for None.  The result carries what the call did:
\* the resolved range, how often it fetched, whether the query failed, the rows.
prepare_demand_data(st, e, start_date, end_date, product_id, fault) ==
    LET c == EnsureConn(e, fault)
        l == IF end_date = 0 THEN get_latest_date(st, c.eng, fault)
             ELSE [eng |-> c.eng, res |-> Ret(end_date)]
        none == [fetches |-> 0, fetch_failed |-> FALSE, rows |-> 0]
    IN  IF ~c.res.ok THEN [eng |-> c.eng, res |-> c.res] @@ none
        ELSE IF ~l.res.ok THEN [eng |-> l.eng, res |-> l.res] @@ none
        ELSE LET end == l.res.val
                 start == ResolveStart(start_date, end)
                 data == fetch_sales_data(st, start, end, product_id, fault = "fetch")
                 did == [fetches |-> 1, fetch_failed |-> (fault = "fetch"),
                         rows |-> Len(data), start |-> start, end |-> end]
             IN  IF data = <<>>
                 THEN [eng |-> l.eng, res |-> Ret(<<>>)] @@ did
                 ELSE [eng |-> l.eng, res |-> prepare_time_series_data(data)] @@ did

FMin(xs) == CHOOSE x \in {xs[i] : i \in DOMAIN xs} :
                \A i \in DOMAIN xs : ~FGt(x, xs[i])
FMax(xs) == CHOOSE x \in {xs[i] : i \in DOMAIN xs} :
                \A i \in DOMAIN xs : ~FGt(xs[i], x)

\* analyze_demand_patterns / detect_time_series_properties, without the
\* day-of-week and month averages (a day number carries no calendar)
analyze_demand_patterns(data) ==
    IF data = <<>> THEN [count |-> 0]
    ELSE [mean |-> FMean(Quantity(data)),
          std |-> FSqrt(SampleVar(Quantity(data))),
          min |-> FMin(Quantity(data)),
          max |-> FMax(Quantity(data)),
          count |-> Len(data)]

\* period_map; 0 for a keyword that is not in it
PeriodMap(period) ==
    CASE period = "week" -> 7
      [] period = "month" -> 30
      [] period = "quarter" -> 90
      [] period = "year" -> 365
      [] OTHER -> 0

NoDataNever(data) == FALSE

\* if data.empty: return {}
NoData(data) == data = <<>>

NoDataResult == [kind |-> "empty"]

\* Format results (lines 177-199), with the metrics of lines 171-175
FormatResults(model_result, df, Revenue, avg_price_per_unit, evaluation, patterns) ==
    [kind |-> "report",
     model |-> model_result,
     forecast |->
       [dates |-> df.dates,
        values |-> df.Quantity,
        revenue |-> Revenue,
        lower_bound |-> df.lower_bound,
        upper_bound |-> df.upper_bound,
        revenue_lower_bound |->
           [j \in DOMAIN df.lower_bound |-> FMul(df.lower_bound[j], avg_price_per_unit)],
        revenue_upper_bound |->
           [j \in DOMAIN df.upper_bound |-> FMul(df.upper_bound[j], avg_price_per_unit)]],
     evaluation |-> evaluation,
     patterns |-> patterns,
     revenue_metrics |->
       [total_forecast_revenue |-> FSumSeq(Revenue),
        average_daily_revenue |-> FMean(Revenue),
        revenue_growth_percentage |->
           FTimes(FDiv(FSub(Revenue[Len(Revenue)], Revenue[1]), Revenue[1]), 100, 1),
        average_price_per_unit |-> avg_price_per_unit]]

\* Add revenue predictions to forecast, Evaluate model (lines 163-169)
AddRevenue(model_result, df, avg_price_per_unit, data, patterns) ==
    FormatResults(model_result, df,
                  Strict([j \in DOMAIN df.Quantity |->
                             FMul(df.Quantity[j], avg_price_per_unit)]),
                  avg_price_per_unit,
                  evaluate_forecast_model(model_result, data, "Quantity").val,
                  patterns)

PriceOfLastDay(data) == FDiv(Amount(data)[Len(data)], Quantity(data)[Len(data)])

\* data['Net Sales Amount'].sum() / data['Quantity'].sum()
AvgPricePerUnit(data) == FDiv(FSumSeq(Amount(data)), FSumSeq(Quantity(data)))

\* the forecast of line 158 and the average price per unit of line 161
Forecasted(model_result, g, data, patterns, s) ==
    IF ~g.ok THEN [res |-> g, rng |-> s, stages |-> <<"fit", "generate">>]
    ELSE [res |-> Ret(AddRevenue(model_result, g.val.df,
                                 AvgPricePerUnit(data),
                                 data, patterns)),
          rng |-> g.val.rng,
          stages |-> <<"fit", "generate", "evaluate">>]

\* the model of line 157
Fitted(t, data, patterns, forecast_periods, s) ==
    IF ~t.ok THEN [res |-> t, rng |-> s, stages |-> <<"fit">>]
    ELSE Forecasted(t.val, generate_forecast(t.val, data, TRUE, 95, forecast_periods, s),
                    data, patterns, s)

\* lines 156-199: fit, generate, price, revenue, evaluate, metrics, result
ForecastReport(data, patterns, forecast_periods, s) ==
    Fitted(train_forecast_model(data, "moving_average", forecast_periods),
           data, patterns, forecast_periods, s)

\* the result of the call, r being what lines 156-199 made of non-empty data
Reported(r, did) ==
    IF ~r.res.ok THEN [res |-> r.res, stages |-> <<"prepare", "patterns">> \o r.stages] @@ did
    ELSE [res |-> r.res, rng |-> r.rng,
          stages |-> <<"prepare", "patterns">> \o r.stages \o <<"visualization">>] @@ did

\* lines 147-199, p being what prepare_demand_data did and returned
AfterPrepare(p, s, forecast_periods, fault, did) ==
    IF ~p.res.ok THEN [res |-> p.res, stages |-> <<"prepare">>] @@ did
    ELSE IF NoData(p.res.val)
    THEN [res |-> Ret(NoDataResult), stages |-> <<"prepare">>] @@ did
    ELSE IF fault = "visualization"
    \* the series is not empty, so that fit, generate and evaluate return and
    \* forecast_periods draws are made before the figure fails
    THEN [res |-> Raise("RuntimeError"),
          rng |-> RngAfter(s, forecast_periods),
          stages |-> <<"prepare", "patterns", "fit", "generate", "evaluate",
                       "visualization">>] @@ did
    ELSE Reported(ForecastReport(p.res.val, analyze_demand_patterns(p.res.val),
                                 forecast_periods, s), did)

WithData(p, s, forecast_periods, fault) ==
    AfterPrepare(p, s, forecast_periods, fault,
              [eng |-> p.eng, rng |-> s, fetches |-> p.fetches,
               fetch_failed |-> p.fetch_failed, rows |-> p.rows]
              @@ [x \in {"start", "end"} \cap DOMAIN p |-> p[x]])

validate_after_prepare(st, e, s, period, product_id, fault) ==
    LET p == prepare_demand_data(st, e, 0, 0, product_id, fault)
    IN  IF PeriodMap(period) = 0
        THEN [res |-> Raise("ValueError"), stages |-> <<"prepare">>, eng |-> p.eng,
              rng |-> s, fetches |-> p.fetches, fetch_failed |-> p.fetch_failed,
              rows |-> p.rows]
        ELSE WithData(p, s, PeriodMap(period), fault)

\* generate_forecast_for_period: every exception is logged and re-raised
generate_forecast_for_period(st, e, s, period, product_id, fault) ==
    IF PeriodMap(period) = 0
    THEN [res |-> Raise("ValueError"), stages |-> <<>>, eng |-> e, rng |-> s,
          fetches |-> 0, fetch_failed |-> FALSE, rows |-> 0]
    ELSE WithData(prepare_demand_data(st, e, 0, 0, product_id, fault),
                  s, PeriodMap(period), fault)

---------------------------------------------------------------------------
(* Spec: one request served by one DemandForecastEngine, inside a with block
   or on the bare object: [__enter__], one data operation, [close] *)

FnIdle ==
    /\ pc = "idle"
    /\ raw = <<>>
    /\ ts = <<>>
    /\ model = NoModel
    /\ fncall = NoCall
    /\ prevgen = NoCall

\* __init__: self.conn = None
Init ==
    /\ store \in Stores \cup ScenarioStores
    /\ rng \in RngStates
    /\ conn = 0
    /\ nconn = 0
    /\ openConns = {}
    /\ last = NoCall
    /\ inWith = FALSE
    /\ thr = NoThreads
    /\ FnIdle
    /\ ConnectorLoaded

SetEng(e) ==
    /\ conn' = e.conn
    /\ nconn' = e.nconn
    /\ openConns' = e.openConns

\* what `last` keeps of every operation: the connection before it and the
\* connections opened while it ran
Frame(e) == [conn_before |-> conn, opened |-> e.openConns \ openConns]

\* the engine has been constructed, or entered, and no data operation has run
InBody == last.op = "none" \/ (last.op = "enter" /\ last.res.ok)

\* __enter__: self.conn = self._get_connection()
Enter ==
    /\ last.op = "none"
    /\ \E fault \in {"none", "connect"} :
          \E c \in {get_connection(Eng, fault)} :
          \E e \in {IF c.res.ok THEN [c.eng EXCEPT !.conn = c.res.val] ELSE c.eng} :
              /\ SetEng(e)
              /\ last' = [op |-> "enter", res |-> c.res] @@ Frame(e)
              /\ inWith' = c.res.ok
    /\ UNCHANGED <<rng, store, fnvars, thr, dbvars>>

close_forgets(e) == [e EXCEPT !.conn = 0]
close_keeps_handle(e) == [e EXCEPT !.openConns = @ \ {e.conn}]

\* close: if self.conn: self.conn.close(); self.conn = None
close(e) ==
    IF e.conn # 0
    THEN [conn |-> 0, nconn |-> e.nconn, openConns |-> e.openConns \ {e.conn}]
    ELSE e

\* close, also run by __exit__
Close ==
    /\ last.op \notin {"none", "close"}
    /\ \E e \in {close(Eng)} :
           /\ SetEng(e)
           /\ last' = [op |-> "close", res |-> Ret(0), exits |-> inWith,
                       raised |-> ~last.res.ok] @@ Frame(e)
    /\ inWith' = FALSE
    /\ UNCHANGED <<rng, store, fnvars, thr, dbvars>>

GetLatestDate ==
    /\ InBody
    /\ \E fault \in {"none", "connect", "latest"} :
          CanFail(fault) /\
          \E r \in {get_latest_date(store, Eng, fault)} :
              /\ SetEng(r.eng)
              /\ last' = [op |-> "_get_latest_date", res |-> r.res] @@ Frame(r.eng)
    /\ UNCHANGED <<rng, store, fnvars, inWith, thr, dbvars>>

PrepareDemandData ==
    /\ InBody
    /\ \E start_date \in 0..MaxDay, end_date \in 0..MaxDay, product_id \in Pids,
          fault \in {"none", "connect", "latest", "fetch"} :
          CanFail(fault) /\
          \E r \in {prepare_demand_data(store, Eng, start_date, end_date,
                                          product_id, fault)} :
              /\ SetEng(r.eng)
              /\ last' = [op |-> "prepare_demand_data",
                          start_date |-> start_date, end_date |-> end_date,
                          product_id |-> product_id]
                         @@ [x \in DOMAIN r \ {"eng"} |-> r[x]] @@ Frame(r.eng)
    /\ UNCHANGED <<rng, store, fnvars, inWith, thr, dbvars>>

\* the date range a caller may want to give: none, or the days 1 to MaxDay
DateArgs == {[start_date |-> 0, end_date |-> 0],
             [start_date |-> 1, end_date |-> MaxDay]}

\* the signature is (period, product_id, region): a call with start_date or
\* end_date raises TypeError before the body runs
UnexpectedKeyword(e, s) ==
    [res |-> Raise("TypeError"), stages |-> <<>>, eng |-> e, rng |-> s,
     fetches |-> 0, fetch_failed |-> FALSE, rows |-> 0]

GenerateForecastForPeriod ==
    /\ InBody
    /\ \E period \in Periods, product_id \in Pids, fault \in Faults, dates \in DateArgs :
          CanFail(fault) /\
          (dates.start_date # 0 => fault = "none") /\
          \E r \in {IF dates.start_date # 0 \/ dates.end_date # 0
                     THEN UnexpectedKeyword(Eng, rng)
                     ELSE generate_forecast_for_period(store, Eng, rng, period,
                                                       product_id, fault)} :
              /\ SetEng(r.eng)
              /\ rng' = r.rng
              /\ last' = [op |-> "generate_forecast_for_period",
                          period |-> period, product_id |-> product_id,
                          start_date |-> dates.start_date,
                          end_date |-> dates.end_date]
                         @@ [x \in DOMAIN r \ {"eng", "rng"} |-> r[x]] @@ Frame(r.eng)
    /\ UNCHANGED <<store, fnvars, inWith, thr, dbvars>>

Next ==
    \/ Enter
    \/ Close
    \/ GetLatestDate
    \/ PrepareDemandData
    \/ GenerateForecastForPeriod

Spec == Init /\ [][Next]_vars

---------------------------------------------------------------------------
(* ConcSpec: the threads of one process each call generate_forecast_for_period
   on an engine of their own.  The engines and their connections are private;
   np.random is the process's.  A thread can be preempted between any two
   iterations of the loop of generate_forecast. *)

\* stores with a transaction of each item, on consecutive days, at one price
ConcStores ==
    {st \in Stores : /\ Present(st) = Items
                     /\ st[2].date = 2
                     /\ \A k \in Items : st[k].amt = UnitPrice}
ConcPeriods == {"week"}
FreshEng == [conn |-> 0, nconn |-> 0, openConns |-> {}]

\* lines 147-157 and 205-223 of generate_forecast: up to the first iteration
Entered(p, period, product_id) ==
    IF ~p.res.ok THEN [pc |-> "done", res |-> p.res]
    ELSE IF NoData(p.res.val) THEN [pc |-> "done", res |-> Ret(NoDataResult)]
    ELSE [pc |-> "loop", period |-> period, product_id |-> product_id,
          data |-> p.res.val,
          patterns |-> analyze_demand_patterns(p.res.val),
          model_result |-> train_forecast_model(p.res.val, "moving_average",
                                                PeriodMap(period)).val,
          i |-> 0, forecast_values |-> <<>>, first_draw |-> 0]

CStart(t) ==
    /\ thr[t].pc = "idle"
    /\ \E period \in ConcPeriods, product_id \in Pids :
       \E p \in {prepare_demand_data(store, FreshEng, 0, 0, product_id, "none")} :
          thr' = [thr EXCEPT ![t] = Entered(p, period, product_id)]
    /\ UNCHANGED <<rng, store, conn, nconn, openConns, last, inWith, fnvars, dbvars>>

\* one iteration of for i in range(forecast_periods)
CDraw(t) ==
    /\ thr[t].pc = "loop"
    /\ thr[t].i < PeriodMap(thr[t].period)
    /\ thr' = [thr EXCEPT
                 ![t].forecast_values =
                     Append(@, ForecastValue(thr[t].model_result,
                                             Trend(Quantity(thr[t].data)),
                                             thr[t].i, rng)),
                 ![t].first_draw = IF thr[t].i = 0 THEN rng ELSE @,
                 ![t].i = @ + 1]
    /\ rng' = NextRng(rng)
    /\ UNCHANGED <<store, conn, nconn, openConns, last, inWith, fnvars, dbvars>>

\* after the loop: the DataFrame, the revenue, the evaluation, the results
CFinish(t) ==
    /\ thr[t].pc = "loop"
    /\ thr[t].i = PeriodMap(thr[t].period)
    /\ \E r \in {AddRevenue(thr[t].model_result,
                            ForecastFrame(thr[t].model_result,
                                          ForecastDates(thr[t].data,
                                                        PeriodMap(thr[t].period)),
                                          thr[t].forecast_values, TRUE),
                            AvgPricePerUnit(thr[t].data),
                            thr[t].data, thr[t].patterns)} :
          thr' = [thr EXCEPT ![t] = [pc |-> "done", res |-> Ret(r)] @@ thr[t]]
    /\ UNCHANGED <<rng, store, conn, nconn, openConns, last, inWith, fnvars, dbvars>>

ConcInit ==
    /\ store \in ConcStores
    /\ rng \in RngStates
    /\ conn = 0
    /\ nconn = 0
    /\ openConns = {}
    /\ last = NoCall
    /\ inWith = FALSE
    /\ thr = NoThreads
    /\ FnIdle
    /\ ConnectorLoaded

ConcNext == \E t \in Threads : CStart(t) \/ CDraw(t) \/ CFinish(t)

ConcSpec == ConcInit /\ [][ConcNext]_vars

---------------------------------------------------------------------------
(* LifeSpec: one DemandForecastEngine used freely: any sequence of __enter__,
   close / __exit__, _get_latest_date, prepare_demand_data and
   generate_forecast_for_period, until MaxConns connections have been opened *)

MaxConns == 3

\* stores with at most the transaction of item 1
LifeStores == {st \in Stores : st[2] = NoTxn}
LifePeriods == {"week", "decade"}
LifeFaults == {"none", "connect"}

\* what `last` keeps of an operation: the engine before it, and whether the
\* operation before it was close
Before == [before |-> Eng, after_close |-> last.op = "close"]

\* self.conn = ...: the connection conn held before is closed by no statement;
\* whether the interpreter finalizes the unreferenced object is its choice
Rebind(e, new_conn, finalized) ==
    [conn |-> new_conn, nconn |-> e.nconn,
     openConns |-> IF finalized THEN e.openConns \ {conn} ELSE e.openConns]

LEnter ==
    /\ nconn < MaxConns
    /\ \E fault \in LifeFaults, finalized \in BOOLEAN :
          \E c \in {get_connection(Eng, fault)} :
          \E e \in {IF c.res.ok THEN Rebind(c.eng, c.res.val, finalized) ELSE c.eng} :
              /\ SetEng(e)
              /\ last' = [op |-> "enter", res |-> c.res, fault |-> fault] @@ Before
    /\ UNCHANGED <<rng, store, fnvars, inWith, thr, dbvars>>

LClose ==
    /\ \E e \in {close(Eng)} :
           /\ SetEng(e)
           /\ last' = [op |-> "close", res |-> Ret(0), fault |-> "none"] @@ Before
    /\ UNCHANGED <<rng, store, fnvars, inWith, thr, dbvars>>

LGetLatestDate ==
    /\ nconn < MaxConns
    /\ \E fault \in LifeFaults :
          CanFail(fault) /\
          \E r \in {get_latest_date(store, Eng, fault)} :
              /\ SetEng(r.eng)
              /\ last' = [op |-> "_get_latest_date", res |-> r.res, fault |-> fault]
                         @@ Before
    /\ UNCHANGED <<rng, store, fnvars, inWith, thr, dbvars>>

LPrepareDemandData ==
    /\ nconn < MaxConns
    /\ \E fault \in LifeFaults :
          CanFail(fault) /\
          \E r \in {prepare_demand_data(store, Eng, 0, 0, 0, fault)} :
              /\ SetEng(r.eng)
              /\ last' = [op |-> "prepare_demand_data", res |-> r.res, fault |-> fault]
                         @@ Before
    /\ UNCHANGED <<rng, store, fnvars, inWith, thr, dbvars>>

LGenerateForecastForPeriod ==
    /\ nconn < MaxConns
    /\ \E period \in LifePeriods, fault \in LifeFaults :
          CanFail(fault) /\
          \E r \in {generate_forecast_for_period(store, Eng, rng, period, 0, fault)} :
              /\ SetEng(r.eng)
              /\ rng' = r.rng
              /\ last' = [op |-> "generate_forecast_for_period", res |-> r.res,
                          fault |-> fault, period |-> period] @@ Before
    /\ UNCHANGED <<store, fnvars, inWith, thr, dbvars>>

LifeInit ==
    /\ store \in LifeStores
    /\ rng \in RngStates
    /\ conn = 0
    /\ nconn = 0
    /\ openConns = {}
    /\ last = NoCall
    /\ inWith = FALSE
    /\ thr = NoThreads
    /\ FnIdle
    /\ ConnectorLoaded

LifeNext ==
    \/ LEnter
    \/ LClose
    \/ LGetLatestDate
    \/ LPrepareDemandData
    \/ LGenerateForecastForPeriod

LifeSpec == LifeInit /\ [][LifeNext]_vars

---------------------------------------------------------------------------
(* ConnSpec: connector.py: the threads of a process that has imported
   connector.py call DatabaseConnector.get_instance / get_db_connector.  A
   thread can be preempted between any two statements of get_instance, and
   between the construction of the object and its assignment. *)

MaxGets == 2        \* calls of get_instance per thread

NoGets == [t \in Threads |-> [pc |-> "idle", obj |-> 0, got |-> {}, calls |-> 0]]

\* if cls._instance is None:
GetInstanceTest(t) ==
    /\ thr[t].pc = "idle"
    /\ thr[t].calls < MaxGets
    /\ thr' = [thr EXCEPT ![t].pc = IF singleton = 0 THEN "construct" ELSE "return",
                          ![t].calls = @ + 1]
    /\ UNCHANGED <<rng, fnvars, store, conn, nconn, openConns, last, inWith, dbvars>>

\* DatabaseConnector()
GetInstanceConstruct(t) ==
    /\ thr[t].pc = "construct"
    /\ created' = created + 1
    /\ thr' = [thr EXCEPT ![t].pc = "assign", ![t].obj = created + 1]
    /\ UNCHANGED <<rng, fnvars, store, conn, nconn, openConns, last, inWith, singleton>>

\* cls._instance = ...
GetInstanceAssign(t) ==
    /\ thr[t].pc = "assign"
    /\ singleton' = thr[t].obj
    /\ thr' = [thr EXCEPT ![t].pc = "return"]
    /\ UNCHANGED <<rng, fnvars, store, conn, nconn, openConns, last, inWith, created>>

\* return cls._instance
GetInstanceReturn(t) ==
    /\ thr[t].pc = "return"
    /\ thr' = [thr EXCEPT ![t].pc = "idle", ![t].got = @ \cup {singleton}]
    /\ UNCHANGED <<rng, fnvars, store, conn, nconn, openConns, last, inWith, dbvars>>

ConnInit ==
    /\ store = NoStore
    /\ rng = 0
    /\ conn = 0
    /\ nconn = 0
    /\ openConns = {}
    /\ last = NoCall
    /\ inWith = FALSE
    /\ thr = NoGets
    /\ FnIdle
    /\ NoConnector

ConnNext ==
    \E t \in Threads :
        \/ GetInstanceTest(t)
        \/ GetInstanceConstruct(t)
        \/ GetInstanceAssign(t)
        \/ GetInstanceReturn(t)

ConnSpec == ConnInit /\ [][ConnNext]_vars

---------------------------------------------------------------------------
(* Properties of the forecast_utils functions, stated over FnSpec *)

Generated == fncall.op = "generate"

\* C1: for a non-empty series S and H > 0, generate_forecast returns exactly H
\* rows, dated with consecutive calendar days from the day after the last date of S
C1_RowsAndDates ==
    (Generated /\ fncall.series # <<>> /\ fncall.forecast_periods > 0) =>
        /\ fncall.res.ok
        /\ LET df == fncall.res.val
               S == fncall.series
               H == fncall.forecast_periods
           IN  /\ Len(df.dates) = H
               /\ Len(df.Quantity) = H
               /\ fncall.prediction_intervals =>
                     (Len(df.lower_bound) = H /\ Len(df.upper_bound) = H)
               /\ df.dates[1] = S[Len(S)].date + 1
               /\ \A j \in 1..(H - 1) : df.dates[j + 1] = df.dates[j] + 1

C1_Witness ==
    /\ Generated
    /\ Len(fncall.series) >= 2
    /\ fncall.forecast_periods >= 2
    /\ fncall.res.ok
    /\ Len(fncall.res.val.dates) >= 2

\* C2: every point forecast of generate_forecast is a number >= 0, whatever the
\* moving average, the trend and the noise drawn
C2_NonNegative ==
    (Generated /\ fncall.res.ok) =>
        \A j \in DOMAIN fncall.res.val.Quantity :
            FGe(fncall.res.val.Quantity[j], Fin(0))

\* a step whose sum of moving average, trend and noise is negative
C2_Witness ==
    /\ Generated
    /\ fncall.res.ok
    /\ fncall.forecast_periods >= 1
    /\ fncall.model.moving_avg.v < 0
    /\ Trend(Quantity(fncall.series)).v < 0
    /\ fncall.res.val.Quantity[1] = Fin(0)

\* C3: two runs of generate_forecast with identical model, series, horizon and
\* seed return identical forecasts.  generate_forecast takes no seed and no random
\* source: the second run is the first one repeated, argument for argument.
C3_Determinism ==
    (Generated /\ prevgen.op = "generate"
        /\ fncall.model = prevgen.model
        /\ fncall.series = prevgen.series
        /\ fncall.prediction_intervals = prevgen.prediction_intervals
        /\ fncall.confidence_level = prevgen.confidence_level
        /\ fncall.forecast_periods = prevgen.forecast_periods)
    => fncall.res = prevgen.res

\* C8: window_size = min(N(H), len(series)), N(H) = 7, 30, 90, 365 for H <= 7,
\* 7 < H <= 30, 30 < H <= 90, H > 90
C8_N(H) ==
    CASE H <= 7 -> 7
      [] 7 < H /\ H <= 30 -> 30
      [] 30 < H /\ H <= 90 -> 90
      [] OTHER -> 365

C8_WindowSize ==
    (fncall.op = "train" /\ fncall.model_type = "moving_average"
        /\ fncall.series # <<>>) =>
        /\ fncall.res.ok
        /\ LET n == Len(fncall.series)
               N == C8_N(fncall.forecast_periods)
           IN  /\ fncall.res.val.window_size = (IF N <= n THEN N ELSE n)
               /\ n < N => fncall.res.val.window_size = n

\* a series of length 3 fitted for 90 days
C8_Witness ==
    /\ fncall.op = "train"
    /\ Len(fncall.series) = 3
    /\ fncall.forecast_periods = 90
    /\ fncall.res.ok
    /\ fncall.res.val.window_size = 3

\* a series longer than the nominal window: the window is not clamped
C8_WitnessUnclamped ==
    /\ fncall.op = "train"
    /\ fncall.res.ok
    /\ fncall.forecast_periods = 31
    /\ fncall.res.val.window_size = 90
    /\ Len(fncall.series) > 90

Prepared == fncall.op = "prepare"
RawDates(data) == {data[i].date : i \in DOMAIN data}

\* C9: the series assembled from non-empty raw observations has one entry for
\* each calendar day from the first to the last observed date, in order
C9_DailySeries ==
    (Prepared /\ fncall.data # <<>>) =>
        /\ fncall.res.ok
        /\ LET S == fncall.res.val
               lo == SetMin(RawDates(fncall.data))
               hi == SetMax(RawDates(fncall.data))
           IN  /\ Len(S) = hi - lo + 1
               /\ S[1].date = lo
               /\ S[Len(S)].date = hi
               /\ \A i \in 1..(Len(S) - 1) : S[i + 1].date = S[i].date + 1
               /\ \A i, j \in DOMAIN S : S[i].date = S[j].date => i = j

\* rows out of order, with a day between them that has no observation
C9_Witness ==
    /\ Prepared
    /\ Len(fncall.data) = 2
    /\ fncall.data[1].date > fncall.data[2].date + 1
    /\ fncall.res.ok
    /\ Len(fncall.res.val) = 3

C10_DaySum(data, d, col) ==
    SumSeq([i \in DOMAIN data |-> IF data[i].date = d THEN data[i][col] ELSE 0])

\* C10: each day of the assembled series carries the sums of the quantities and
\* of the amounts of the raw observations of that day, 0 and 0 for a day without
\* observation; the totals of the series are the totals of the raw observations
C10_DailySums ==
    (Prepared /\ fncall.res.ok) =>
        LET S == fncall.res.val
            data == fncall.data
        IN  /\ \A i \in DOMAIN S :
                  /\ S[i].qty = C10_DaySum(data, S[i].date, "qty")
                  /\ S[i].rev = C10_DaySum(data, S[i].date, "amt")
                  /\ S[i].date \notin RawDates(data) => (S[i].qty = 0 /\ S[i].rev = 0)
            /\ SumSeq([i \in DOMAIN S |-> S[i].qty])
                  = SumSeq([i \in DOMAIN data |-> data[i].qty])
            /\ SumSeq([i \in DOMAIN S |-> S[i].rev])
                  = SumSeq([i \in DOMAIN data |-> data[i].amt])

\* two observations of one day, each with a quantity and an amount
C10_Witness ==
    /\ Prepared
    /\ fncall.res.ok
    /\ Len(fncall.data) = 2
    /\ fncall.data[1].date = fncall.data[2].date
    /\ fncall.data[1].qty > 0 /\ fncall.data[2].qty > 0
    /\ fncall.data[1].amt > 0 /\ fncall.data[2].amt > 0
    /\ fncall.res.val[1].qty = fncall.data[1].qty + fncall.data[2].qty

---------------------------------------------------------------------------
(* Properties of generate_forecast_for_period, stated over Spec *)

Forecasting == last.op = "generate_forecast_for_period"

\* C4: whatever stage fails, generate_forecast_for_period returns a result and
\* raises nothing.  The except clause logs and re-raises, so that the call of an
\* unknown period, or of a store without a latest date, ends in an exception.
C4_NoRawException == Forecasting => last.res.ok

\* C5: every connection opened while generate_forecast_for_period ran is closed
\* when the call ends.  The call opens the engine's connection lazily and
\* nothing in it closes one.
C5_ScopedAcquisition == Forecasting => last.opened \cap openConns = {}

\* C6: when the fetch for the resolved range returns no rows,
\* generate_forecast_for_period returns the "no data" result, raises nothing
\* and runs none of fit, generate and evaluate
C6_NoDataResult ==
    (Forecasting /\ last.fetches > 0 /\ last.rows = 0) =>
        /\ last.res = Ret(NoDataResult)
        /\ \A i \in DOMAIN last.stages :
              last.stages[i] \notin {"fit", "generate", "evaluate"}

\* the store has transactions, none of them of the requested product
C6_Witness ==
    /\ Forecasting
    /\ Present(store) # {}
    /\ last.product_id \notin Present(store)
    /\ last.product_id # 0
    /\ last.fetches = 1
    /\ ~last.fetch_failed
    /\ last.rows = 0
    /\ last.res = Ret(NoDataResult)

\* C7: a failure of the query in fetch_sales_data reaches the caller of
\* generate_forecast_for_period as a result other than the "no data" result.
\* fetch_sales_data logs the exception and returns an empty DataFrame, which the
\* orchestrator answers exactly as it answers an empty window.
C7_FetchFailureSurfaces ==
    (Forecasting /\ last.fetch_failed) => last.res # Ret(NoDataResult)

---------------------------------------------------------------------------
(* Further properties of the forecast_utils functions, stated over FnSpec *)

Trained == fncall.op = "train"

\* C11: train_forecast_model of a series of length 0 fails with
\* InsufficientDataError.  No such error exists in the code: the window is
\* min(window_size, 0) = 0 and .iloc[-1] of the empty rolling mean raises
\* IndexError.
C11_InsufficientData ==
    (Trained /\ fncall.model_type = "moving_average" /\ fncall.series = <<>>) =>
        fncall.res = Raise("InsufficientDataError")

Evaluated == fncall.op = "evaluate"

IsConstant(series) ==
    Len(series) >= 1 /\ \A i \in DOMAIN series : series[i].qty = series[1].qty

\* the model is one that train_forecast_model fits on the series
FittedOn(model_result, series) ==
    \E forecast_periods \in Horizons :
        train_forecast_model(series, "moving_average", forecast_periods)
            = Ret(model_result)

\* C16: for a constant series of any length >= 1, the evaluation of a model
\* fitted on the series, whatever the horizon, against the same series gives
\* MAE = MSE = RMSE = 0.
C16_SelfEvaluation ==
    (Evaluated /\ IsConstant(fncall.test_data)
               /\ FittedOn(fncall.model, fncall.test_data))
    => fncall.res = Ret([mae |-> Fin(0), mse |-> Fin(0), rmse |-> Fin(0)])

\* a constant series of a positive quantity, longer than the window of the model
C16_Witness ==
    /\ Evaluated
    /\ IsConstant(fncall.test_data)
    /\ fncall.test_data[1].qty > 0
    /\ fncall.model.window_size < Len(fncall.test_data)
    /\ FittedOn(fncall.model, fncall.test_data)

ModelFields == {"model_type", "window_size", "moving_avg", "std_dev"}

\* (last quantity - first quantity) / series length, over the entire series
C18_Trend(series) ==
    FDiv(FSub(FromInt(series[Len(series)].qty), FromInt(series[1].qty)),
         FromInt(Len(series)))

\* row j of the forecast: moving average + trend * j + noise, clamped at 0
C18_Row(model_result, trend, j, s) ==
    PyMax0(FAdd(FAdd(model_result.moving_avg, FTimes(trend, j, 1)),
                Normal0(FTimes(model_result.std_dev, 5, 10), s)))

\* C18 as stated: the trend (last quantity - first quantity) / series length,
\* taken over the entire series, is part of the fitted model that
\* train_forecast_model produces, and step i of the forecast adds that trend
\* times i.
C18_TrendInModel ==
    /\ (Trained /\ fncall.res.ok) =>
          /\ "trend" \in DOMAIN fncall.res.val
          /\ fncall.res.val.trend = C18_Trend(fncall.series)
    /\ (Generated /\ fncall.res.ok) =>
          /\ "trend" \in DOMAIN fncall.model
          /\ \A j \in DOMAIN fncall.res.val.Quantity :
                fncall.res.val.Quantity[j] =
                    C18_Row(fncall.model, fncall.model.trend, j,
                            RngAfter(fncall.drawn_from, j - 1))

\* C18, amended: the trend used for forecasting is (last quantity - first
\* quantity) / series length, taken over the entire series given to
\* generate_forecast and not over the fit window; generate_forecast computes it
\* at each call, and it is no part of the fitted model, which holds the model
\* type, the window size, the moving average and the standard deviation only;
\* step i of the forecast adds trend times i.
C18_TrendInGenerate ==
    /\ (Trained /\ fncall.res.ok) => DOMAIN fncall.res.val = ModelFields
    /\ (Generated /\ fncall.res.ok) =>
          \A j \in DOMAIN fncall.res.val.Quantity :
              fncall.res.val.Quantity[j] =
                  C18_Row(fncall.model, C18_Trend(fncall.series), j,
                          RngAfter(fncall.drawn_from, j - 1))

\* quantities 10, 20, ..., 100 and a model of window 7: the trend is 9 and the
\* forecast of day 1 is moving average + 9 + noise
C18_Witness ==
    /\ Generated
    /\ fncall.res.ok
    /\ fncall.series = Rising
    /\ fncall.model.window_size = 7
    /\ fncall.forecast_periods >= 2
    /\ C18_Trend(fncall.series) = FromInt(9)
    /\ fncall.res.val.Quantity[1] =
          FAdd(FAdd(fncall.model.moving_avg, FromInt(9)),
               Normal0(FTimes(fncall.model.std_dev, 5, 10), fncall.drawn_from))

\* z times the standard deviation of the model, z = 1.96
C20_Half(model_result) == FTimes(model_result.std_dev, ZScoreNum, ZScoreDen)

\* C20: when prediction intervals are requested, every forecast row has
\* lower_bound = point - z * std_dev and upper_bound = point + z * std_dev with
\* one z for all rows, hence lower_bound <= point <= upper_bound, and the
\* interval is symmetric around the clamped point forecast.  The two equations
\* hold; for a model fitted on a single day std_dev is nan, so are the bounds,
\* and no comparison with them is true.
C20_Interval ==
    (Generated /\ fncall.res.ok /\ fncall.prediction_intervals) =>
        LET df == fncall.res.val
        IN  \A j \in DOMAIN df.Quantity :
              /\ df.lower_bound[j] = FSub(df.Quantity[j], C20_Half(fncall.model))
              /\ df.upper_bound[j] = FAdd(df.Quantity[j], C20_Half(fncall.model))
              /\ FGe(df.Quantity[j], df.lower_bound[j])
              /\ FGe(df.upper_bound[j], df.Quantity[j])
              /\ FSub(df.Quantity[j], df.lower_bound[j])
                    = FSub(df.upper_bound[j], df.Quantity[j])
              /\ IsFin(FSub(df.upper_bound[j], df.Quantity[j]))

\* C21: confidence_level does not influence the forecast: for the same model,
\* series, horizon and noise draws generate_forecast returns the same rows and
\* bounds at every confidence level, and the bounds are the point forecast
\* minus and plus 1.96 standard deviations.
C21_ConfidenceIgnored ==
    (Generated /\ fncall.res.ok) =>
        /\ \A confidence_level \in ConfLevels :
              generate_forecast(fncall.model, fncall.series,
                                fncall.prediction_intervals, confidence_level,
                                fncall.forecast_periods, fncall.drawn_from)
                = Ret([df |-> fncall.res.val, rng |-> rng])
        /\ fncall.prediction_intervals =>
              \A j \in DOMAIN fncall.res.val.Quantity :
                  /\ fncall.res.val.lower_bound[j] =
                        FSub(fncall.res.val.Quantity[j],
                             FTimes(fncall.model.std_dev, 196, 100))
                  /\ fncall.res.val.upper_bound[j] =
                        FAdd(fncall.res.val.Quantity[j],
                             FTimes(fncall.model.std_dev, 196, 100))

\* intervals at the 80% level around a forecast of positive standard deviation
C21_Witness ==
    /\ Generated
    /\ fncall.res.ok
    /\ fncall.prediction_intervals
    /\ fncall.confidence_level = 80
    /\ fncall.forecast_periods >= 1
    /\ IsFin(fncall.model.std_dev)
    /\ fncall.model.std_dev.v > 0
    /\ fncall.res.val.upper_bound[1] # fncall.res.val.lower_bound[1]

\* C29: generate_forecast and evaluate_forecast_model leave their arguments as
\* they were: after either call the model (model_type, window_size,
\* moving_avg, std_dev) and the series (dates, quantities, revenues, length)
\* of the caller are what they were before it, so that an evaluation after a
\* forecast is given the model and the series the forecast was given.
C29_InputsUnchanged ==
    [][(fncall' # fncall /\ fncall'.op \in {"generate", "evaluate"}) =>
          /\ model' = model
          /\ ts' = ts
          /\ fncall'.model = model
          /\ (fncall'.op = "evaluate" /\ fncall.op = "generate") =>
                /\ fncall'.model = fncall.model
                /\ fncall'.test_data = fncall.series]_vars

\* an evaluation after a forecast of at least one row
C29_Witness ==
    /\ Evaluated
    /\ fncall.after_generate
    /\ fncall.res.ok
    /\ Len(fncall.test_data) >= 2
    /\ fncall.model = model
    /\ fncall.test_data = ts

---------------------------------------------------------------------------
(* Further properties of generate_forecast_for_period, stated over Spec *)

ValidPeriods == {"week", "month", "quarter", "year"}

C12_Days(period) ==
    CASE period = "week" -> 7
      [] period = "month" -> 30
      [] period = "quarter" -> 90
      [] period = "year" -> 365

HasReport == Forecasting /\ last.res.ok /\ last.res.val.kind = "report"

\* C12: a period outside week, month, quarter, year gives an
\* InvalidConfigurationError result, and the four keywords give 7, 30, 90 and
\* 365 forecast days.  The second half holds; for the unknown keyword the code
\* raises ValueError and returns nothing.
C12_InvalidPeriod ==
    /\ (Forecasting /\ last.period \notin ValidPeriods) =>
          /\ last.res.ok
          /\ last.res.val = [kind |-> "error", error |-> "InvalidConfigurationError"]
    /\ HasReport =>
          /\ last.period \in ValidPeriods
          /\ Len(last.res.val.forecast.values) = C12_Days(last.period)

AllFin(xs) == \A i \in DOMAIN xs : IsFin(xs[i])

\* C13: what generate_forecast_for_period returns is the no-data result or a
\* report whose rows, bounds, revenues, evaluation and summary metrics are all
\* finite numbers.  A series of one day has no sample standard deviation (nan
\* bounds), a total quantity of 0 no price (nan or inf revenues), a first
\* revenue of 0 no growth.
C13_FiniteReport ==
    (Forecasting /\ last.res.ok) =>
        \/ last.res.val = NoDataResult
        \/ /\ last.res.val.kind = "report"
           /\ LET f == last.res.val.forecast
                  e == last.res.val.evaluation
                  m == last.res.val.revenue_metrics
              IN  /\ AllFin(f.values) /\ AllFin(f.lower_bound) /\ AllFin(f.upper_bound)
                  /\ AllFin(f.revenue) /\ AllFin(f.revenue_lower_bound)
                  /\ AllFin(f.revenue_upper_bound)
                  /\ IsFin(e.mae) /\ IsFin(e.mse) /\ IsFin(e.rmse)
                  /\ IsFin(m.total_forecast_revenue) /\ IsFin(m.average_daily_revenue)
                  /\ IsFin(m.revenue_growth_percentage)
                  /\ IsFin(m.average_price_per_unit)

\* C15: used as a context manager, the engine holds an open connection (conn is
\* not None) throughout the with body, and once the block has exited, whether
\* the body returned or raised, conn is None and the connection it held is
\* closed.
C15_ContextManager ==
    /\ inWith => (conn # 0 /\ conn \in openConns)
    /\ (last.op = "close" /\ last.exits) =>
          /\ conn = 0
          /\ last.conn_before # 0
          /\ last.conn_before \notin openConns

\* a with block whose body raised has exited
C15_Witness == last.op = "close" /\ last.exits /\ last.raised

\* the series the call assembled from the store
CallData == prepare_demand_data(store, FreshEng, 0, 0, last.product_id, "none").res.val

\* at least 2 days, the same positive quantity and the same revenue every day
ConstantData(data) ==
    /\ Len(data) >= 2
    /\ IsConstant(data)
    /\ data[1].qty > 0
    /\ \A i \in DOMAIN data : data[i].rev = data[1].rev

\* x is the amount n up to tol units of 1/Scale
Near(x, n, tol) == IsFin(x) /\ Abs(x.v - n * Scale) <= tol

\* C17: for a constant series of at least 2 days with quantity v > 0 and
\* revenue r per day the fitted model has moving average v and standard
\* deviation 0, the trend is 0, and every forecast row has point forecast =
\* lower bound = upper bound = v and revenue r; r up to the rounding of the
\* unit price r/v, which is less than one unit of 1/Scale per unit sold.
C17_ConstantSeries ==
    (HasReport /\ ConstantData(CallData)) =>
        LET v == CallData[1].qty
            r == CallData[1].rev
            f == last.res.val.forecast
        IN  /\ last.res.val.model.moving_avg = FromInt(v)
            /\ last.res.val.model.std_dev = Fin(0)
            /\ Trend(Quantity(CallData)) = Fin(0)
            /\ Len(f.values) = PeriodMap(last.period)
            /\ \A j \in DOMAIN f.values :
                  /\ f.values[j] = FromInt(v)
                  /\ f.lower_bound[j] = FromInt(v)
                  /\ f.upper_bound[j] = FromInt(v)
                  /\ Near(f.revenue[j], r, v)

\* 10 days of 100 units and 500 revenue, horizon week: window 7, 7 rows of 100
\* and 500
C17_Witness ==
    /\ HasReport
    /\ store = ConstantStore
    /\ last.period = "week"
    /\ ConstantData(CallData)
    /\ Len(CallData) = 10
    /\ last.res.val.model.window_size = 7
    /\ Len(last.res.val.forecast.values) = 7
    /\ \A j \in 1..7 : /\ last.res.val.forecast.values[j] = FromInt(100)
                        /\ last.res.val.forecast.revenue[j] = FromInt(500)

\* total revenue / total quantity of the last window days of the series
C19_Price(data, window) ==
    FDiv(FSumSeq(LastN(Amount(data), window)), FSumSeq(LastN(Quantity(data), window)))

\* revenue, revenue lower bound and revenue upper bound of every row are the
\* quantity point forecast, lower bound and upper bound times the price
C19_Priced(f, price) ==
    /\ DOMAIN f.revenue = DOMAIN f.values
    /\ DOMAIN f.revenue_lower_bound = DOMAIN f.values
    /\ DOMAIN f.revenue_upper_bound = DOMAIN f.values
    /\ \A j \in DOMAIN f.values :
          /\ f.revenue[j] = FMul(f.values[j], price)
          /\ f.revenue_lower_bound[j] = FMul(f.lower_bound[j], price)
          /\ f.revenue_upper_bound[j] = FMul(f.upper_bound[j], price)

\* C19 as stated: the three revenue columns of every row are the three
\* quantity columns times one unit price, total revenue / total quantity of
\* the fit window (the last window_size days of the series).
C19_PriceOverWindow ==
    HasReport =>
        C19_Priced(last.res.val.forecast,
                   C19_Price(CallData, last.res.val.model.window_size))

\* C19, amended: the three revenue columns of every row are the three quantity
\* columns times one unit price, total revenue / total quantity of the entire
\* series the call assembled (the lookback window of the fetch), whatever the
\* fit window.
C19_PriceOverSeries ==
    HasReport =>
        C19_Priced(last.res.val.forecast, C19_Price(CallData, Len(CallData)))

\* a series longer than the fit window whose price over the window differs
\* from its price over the series, and a row with a positive revenue
C19_Witness ==
    /\ HasReport
    /\ last.res.val.model.window_size < Len(CallData)
    /\ C19_Price(CallData, last.res.val.model.window_size)
          # C19_Price(CallData, Len(CallData))
    /\ \E j \in DOMAIN last.res.val.forecast.revenue :
          /\ IsFin(last.res.val.forecast.revenue[j])
          /\ last.res.val.forecast.revenue[j].v > 0
          /\ IsFin(last.res.val.forecast.revenue_lower_bound[j])

Preparing == last.op = "prepare_demand_data"

\* the transactions of the store in a range, of one product or of all
C22_InRange(start, end, product_id) ==
    {k \in Present(store) : /\ start <= store[k].date
                            /\ store[k].date <= end
                            /\ (product_id # 0 => k = product_id)}

\* C22: prepare_demand_data uses a start_date and an end_date the caller gives
\* unchanged; without an end_date the range ends at the latest transaction
\* date of the store, and without a start_date it starts exactly 90 days
\* before the resolved end; and a caller of generate_forecast_for_period can
\* give the explicit range too.  The first part holds;
\* generate_forecast_for_period takes no dates.
C22_DateRange ==
    /\ (Preparing /\ last.fetches = 1) =>
          /\ last.end = IF last.end_date # 0 THEN last.end_date ELSE MaxTxnDate(store)
          /\ last.start = IF last.start_date # 0 THEN last.start_date ELSE last.end - 90
          /\ ~last.fetch_failed =>
                last.rows = Cardinality(C22_InRange(last.start, last.end, last.product_id))
    /\ (Forecasting /\ last.period \in {"week", "month", "quarter", "year"}
                    /\ last.start_date # 0 /\ last.end_date # 0) =>
          /\ last.fetches = 1
          /\ last.start = last.start_date
          /\ last.end = last.end_date

\* C23: when the store holds no transaction at all, so that there is no latest
\* date, generate_forecast_for_period with the default dates returns the
\* "no data" result.  _get_latest_date raises ValueError for the NULL maximum,
\* and prepare_demand_data and generate_forecast_for_period re-raise it.
C23_EmptyStoreNoData ==
    (Forecasting /\ Present(store) = {}
                 /\ last.period \in {"week", "month", "quarter", "year"}
                 /\ last.start_date = 0 /\ last.end_date = 0)
    => last.res = Ret(NoDataResult)

\* the absolute and the squared distance of every quantity of the series from ma
C24_AbsErr(data, ma) ==
    [i \in DOMAIN data |->
        IF FromInt(data[i].qty).v >= ma.v THEN Fin(FromInt(data[i].qty).v - ma.v)
        ELSE Fin(ma.v - FromInt(data[i].qty).v)]
C24_SqErr(data, ma) ==
    [i \in DOMAIN data |->
        FMul(FSub(FromInt(data[i].qty), ma), FSub(FromInt(data[i].qty), ma))]

\* C24: the evaluation predicts the moving average of the model for every
\* point of the series given (the whole series, not its last window_size
\* points): MAE = mean |x - ma|, MSE = mean (x - ma)^2, RMSE^2 = MSE up to the
\* rounding of the root; and generate_forecast_for_period evaluates on the
\* series the model was fitted on.
C24_Evaluation ==
    HasReport =>
        LET ma == last.res.val.model.moving_avg
            e == last.res.val.evaluation
        IN  /\ Ret(last.res.val.model) =
                  train_forecast_model(CallData, "moving_average", PeriodMap(last.period))
            /\ e.mae = FDiv(FSumSeq(C24_AbsErr(CallData, ma)), FromInt(Len(CallData)))
            /\ e.mse = FDiv(FSumSeq(C24_SqErr(CallData, ma)), FromInt(Len(CallData)))
            /\ IsFin(e.rmse) /\ IsFin(e.mse)
            /\ e.rmse.v * e.rmse.v <= e.mse.v * Scale
            /\ e.mse.v * Scale < (e.rmse.v + 1) * (e.rmse.v + 1)

\* a series longer than the window, with an error outside the window
C24_Witness ==
    /\ HasReport
    /\ last.res.val.model.window_size < Len(CallData)
    /\ FromInt(CallData[1].qty) # last.res.val.model.moving_avg
    /\ last.res.val.evaluation.mae.v > 0
    /\ last.res.val.evaluation.rmse.v > 0

\* C25: an unknown period is rejected before any access to the data source:
\* when generate_forecast_for_period is called with it on an engine whose conn
\* is None, no connection is opened, no query is issued, no stage runs, and
\* conn is still None when the call ends.
C25_RejectedBeforeAccess ==
    (Forecasting /\ last.period \notin {"week", "month", "quarter", "year"}
                 /\ last.conn_before = 0)
    => /\ ~HasReport
       /\ last.opened = {}
       /\ last.fetches = 0
       /\ last.stages = <<>>
       /\ conn = 0
       /\ openConns = {}

\* the unknown period on a bare engine over a store with transactions
C25_Witness ==
    /\ Forecasting
    /\ last.period = "decade"
    /\ last.conn_before = 0
    /\ last.start_date = 0
    /\ last.res = Raise("ValueError")
    /\ Present(store) # {}

\* C28: generate_forecast_for_period always fetches the default range
\* [latest - 90 days, latest], so the series it assembles has at most 91
\* entries, the window of the model is min(nominal window, length) <= 91 for
\* every period, and the nominal window 365 of 'year' is never used.
C28_WindowWithinLookback ==
    HasReport =>
        /\ last.end = MaxTxnDate(store)
        /\ last.start = last.end - 90
        /\ \A i \in DOMAIN CallData :
              last.start <= CallData[i].date /\ CallData[i].date <= last.end
        /\ Len(CallData) <= 91
        /\ last.res.val.model.window_size =
              Min(NominalWindow(PeriodMap(last.period)), Len(CallData))
        /\ last.res.val.model.window_size <= 91
        /\ last.period = "year" => last.res.val.model.window_size < 365

\* a store whose first transaction is older than the lookback: a series of 91
\* days and, for 'year', a window of 91
C28_Witness ==
    /\ HasReport
    /\ last.period = "year"
    /\ Len(CallData) = 91
    /\ last.res.val.model.window_size = 91
    /\ \E k \in Present(store) : store[k].date < last.start

---------------------------------------------------------------------------
(* Properties of concurrent calls, stated over ConcSpec *)

\* what the call of thread t returns when it runs alone from the generator
\* state s on the data it assembled
Alone(t, s) ==
    ForecastReport(thr[t].data, thr[t].patterns, PeriodMap(thr[t].period), s).res

Returned(t) == thr[t].pc = "done" /\ "data" \in DOMAIN thr[t]

\* C14: concurrent calls share no mutable state: in every interleaving of two
\* generate_forecast_for_period calls, the result of each call is the result
\* the call produces when it runs alone on the same inputs from the state the
\* random source had at the call's first draw.
C14_NoSharedState ==
    \A t \in Threads : Returned(t) => thr[t].res = Alone(t, thr[t].first_draw)

---------------------------------------------------------------------------
(* Properties of the engine's connection, stated over LifeSpec *)

DataOps == {"_get_latest_date", "prepare_demand_data", "generate_forecast_for_period"}

\* the operation reached the data source: it is no forecast of an unknown period
Accesses ==
    /\ last.op \in DataOps
    /\ last.op = "generate_forecast_for_period" => PeriodMap(last.period) # 0

\* C26: conn is None right after construction, no connection having been
\* opened; after any sequence of operations conn is None right after every
\* close / __exit__; close on an engine whose conn is None changes nothing; and
\* a data operation right after close opens a fresh connection lazily and does
\* not fail for want of one (it raises only for a store without a latest date).
C26_Lifecycle ==
    /\ last.op = "none" => (conn = 0 /\ nconn = 0 /\ openConns = {})
    /\ last.op = "close" => conn = 0
    /\ (last.op = "close" /\ last.before.conn = 0) => Eng = last.before
    /\ (Accesses /\ last.after_close /\ last.fault = "none") =>
          /\ conn = last.before.nconn + 1
          /\ conn \in openConns
          /\ conn \notin last.before.openConns
          /\ last.res.ok \/ (last.res = Raise("ValueError") /\ Present(store) = {})

\* a data operation right after the close of an engine that had a connection
C26_Witness ==
    /\ last.op = "prepare_demand_data"
    /\ last.after_close
    /\ last.before.nconn >= 1
    /\ last.before.conn = 0
    /\ last.res.ok
    /\ conn = last.before.nconn + 1
    /\ conn \in openConns

\* C27: no connection leaks: whatever the sequence of operations, entering the
\* context manager on an engine that has opened a connection lazily, or twice,
\* included, every connection the engine has opened is the one in conn or is
\* closed, so that a close leaves none open.  __enter__ assigns a new
\* connection to conn and closes nothing.
C27_NoLeak ==
    /\ openConns \subseteq ({conn} \ {0})
    /\ last.op = "close" => openConns = {}

---------------------------------------------------------------------------
(* Properties of DatabaseConnector.get_instance, stated over ConnSpec *)

\* the objects the calls of get_instance have returned
Returns == UNION {thr[t].got : t \in Threads}

\* C30: get_instance constructs at most one DatabaseConnector and every call
\* returns the same object, also when two threads make the first call at the
\* same time.  The test `_instance is None` and the assignment are separate
\* statements under no lock: both threads can pass the test before either
\* assigns.
C30_OneInstance ==
    /\ created <= 1
    /\ Cardinality(Returns) <= 1

====
